---- MODULE Spec2Model ----
(***************************************************************************)
(* A model of the Superforms tutorial page and of its tags form.           *)
(*                                                                         *)
(*   - the server side documented in the tutorial: the schema, the load    *)
(*     function and the default form action built on superValidate;        *)
(*   - the client side: the Form component (stores form, errors, message,  *)
(*     the local newTag, the async handler addTag with its tick and its    *)
(*     1 ms timer, the rendered markup) and the page that binds the        *)
(*     component and reads its store through formData().                   *)
(*                                                                         *)
(* Strings that the code inspects (tags, e-mail addresses) are sequences   *)
(* of characters; strings it only passes on (names, messages) are opaque.  *)
(***************************************************************************)
EXTENDS Integers, Sequences, FiniteSets, TLC

VARIABLES
    form,           \* $form, the value of the form store of Form.svelte
    errors,         \* $errors
    message,        \* $message
    newTag,         \* let newTag
    calls,          \* addTag invocations that have not finished, oldest first
    dom,            \* the markup rendered at the last reactive update
    dirty,          \* a reactive update of the Form component is pending
    formComponent,  \* the page's formComponent (bind:this)
    pageForm,       \* the page's form (the reactive statement)
    pageDirty,      \* the page's reactive statement has to run again
    last,           \* the handler that ran last
    event,          \* server: the request being handled
    result          \* server: what load or the action returned

vars == <<form, errors, message, newTag, calls, dom, dirty,
          formComponent, pageForm, pageDirty, last, event, result>>

clientVars == <<form, errors, message, newTag, calls, dom, dirty,
                formComponent, pageForm, pageDirty, last>>

serverVars == <<event, result>>

----------------------------------------------------------------------------
(* Bounds *)

MaxTags == 2

MaxTagLen == 2

MaxEmailLen == 6

----------------------------------------------------------------------------
(* Values *)

Undefined == [kind |-> "undefined"]

Null == "<null>"

NoMessage == "<undefined>"

Messages == {"Form posted!"}

TagAlphabet == {"a"}

EmailAlphabet == {"a", "@", "."}

Names == {"Hello world!", "", "Bob"}

StringsOver(alphabet, n) == UNION {[1..k -> alphabet] : k \in 0..n}

TagStrings == StringsOver(TagAlphabet, MaxTagLen)

EmailStrings == StringsOver(EmailAlphabet, MaxEmailLen)

TagLists == UNION {[1..k -> TagStrings] : k \in 0..MaxTags}

----------------------------------------------------------------------------
(* Server: the schema, superValidate, load and the default action *)

\* The schema with the default of name forgotten
SchemaDefaults_noDefault == [name |-> "", email |-> <<>>]

\* schema: name has the default 'Hello world!'; z.string() alone defaults
\* to the empty string.
SchemaDefaults == [name |-> "Hello world!", email |-> <<>>]

AtPositions(s) == {i \in 1..Len(s) : s[i] = "@"}

NoDotPair(s) == \A i \in 1..(Len(s) - 1) : ~(s[i] = "." /\ s[i + 1] = ".")

\* z.string().email(): one "@"; a local part of dot-separated non-empty
\* words; a domain of at least two non-empty labels, the last one of two
\* letters or more.
IsEmail(s) ==
    /\ Cardinality(AtPositions(s)) = 1
    /\ LET p == CHOOSE i \in AtPositions(s) : TRUE
           local == SubSeq(s, 1, p - 1)
           domain == SubSeq(s, p + 1, Len(s))
       IN  /\ Len(local) > 0
           /\ local[1] # "."
           /\ local[Len(local)] # "."
           /\ NoDotPair(local)
           /\ Len(domain) >= 4
           /\ domain[1] # "."
           /\ NoDotPair(domain)
           /\ \E i \in 1..Len(domain) : domain[i] = "."
           /\ domain[Len(domain)] # "."
           /\ domain[Len(domain) - 1] # "."

SchemaConstraints == [name |-> [required |-> TRUE], email |-> [required |-> TRUE]]

\* superValidate answering invalid data with the schema's defaults
superValidate_defaultsOnInvalid(ev) ==
    IF ev.formData = Undefined \/ ~IsEmail(ev.formData.email)
    THEN [valid |-> FALSE,
          errors |-> [k \in (IF ev.formData = Undefined THEN {} ELSE {"email"})
                        |-> <<"Invalid email">>],
          data |-> SchemaDefaults,
          empty |-> ev.formData = Undefined,
          message |-> NoMessage,
          constraints |-> SchemaConstraints]
    ELSE [valid |-> TRUE,
          errors |-> [k \in {} |-> <<>>],
          data |-> [name |-> ev.formData.name, email |-> ev.formData.email],
          empty |-> FALSE,
          message |-> NoMessage,
          constraints |-> SchemaConstraints]

\* superValidate(event, schema): without FormData the schema's defaults,
\* with FormData the posted data and the outcome of validating it.
superValidate(ev) ==
    IF ev.formData = Undefined
    THEN [valid |-> FALSE,
          errors |-> [k \in {} |-> <<>>],
          data |-> SchemaDefaults,
          empty |-> TRUE,
          message |-> NoMessage,
          constraints |-> SchemaConstraints]
    ELSE [valid |-> IsEmail(ev.formData.email),
          errors |-> [k \in (IF IsEmail(ev.formData.email) THEN {} ELSE {"email"})
                        |-> <<"Invalid email">>],
          data |-> [name |-> ev.formData.name, email |-> ev.formData.email],
          empty |-> FALSE,
          message |-> NoMessage,
          constraints |-> SchemaConstraints]

fail(status, data) == [type |-> "failure", status |-> status, data |-> data]

load(ev) ==
    LET f == superValidate(ev)
    IN  [type |-> "loaded", data |-> [form |-> f]]

\* The action returning the failure without the validation object
actions_default_omitsForm(ev) ==
    LET f == superValidate(ev)
    IN  IF ~f.valid
        THEN fail(400, [message |-> "invalid"])
        ELSE [type |-> "success", data |-> [form |-> f]]

actions_default(ev) ==
    LET f == superValidate(ev)
    IN  IF ~f.valid
        THEN fail(400, [form |-> f])
        ELSE [type |-> "success", data |-> [form |-> f]]

NoEvent == [method |-> "none", formData |-> Undefined]

NoResult == [type |-> "none"]

\* A GET request of the page arrives: it carries no FormData
GetRequest ==
    /\ event = NoEvent
    /\ event' = [method |-> "GET", formData |-> Undefined]
    /\ UNCHANGED result
    /\ UNCHANGED clientVars

\* The form is posted
PostRequest ==
    /\ event = NoEvent
    /\ \E n \in Names, e \in EmailStrings :
          event' = [method |-> "POST", formData |-> [name |-> n, email |-> e]]
    /\ UNCHANGED result
    /\ UNCHANGED clientVars

\* export const load
Load ==
    /\ event.method = "GET"
    /\ result = NoResult
    /\ result' = load(event)
    /\ UNCHANGED event
    /\ UNCHANGED clientVars

\* actions.default
ActionDefault ==
    /\ event.method = "POST"
    /\ result = NoResult
    /\ result' = actions_default(event)
    /\ UNCHANGED event
    /\ UNCHANGED clientVars

\* The result has been sent: the server handles the next request
Respond ==
    /\ result # NoResult
    /\ event' = NoEvent
    /\ result' = NoResult
    /\ UNCHANGED clientVars

----------------------------------------------------------------------------
(* Client: the Form component *)

TagError == "Tag must be at least 2 characters"

\* The validator with the comparison off by one
validators_tags_offByOne(tag) == IF Len(tag) <= 2 THEN TagError ELSE Null

\* validators.tags
validators_tags(tag) == IF Len(tag) < 2 THEN TagError ELSE Null

\* $errors.tags?.[i]
ErrorAt(e, i) == IF i \in DOMAIN e.tags THEN e.tags[i] ELSE Null

\* The template with the condition of the second input inverted
Render_secondInputInverted(f, e, m, n) ==
    [messageShown |-> m # NoMessage,
     tagInputs |-> f.tags,
     errorTexts |-> [i \in {j \in 1..Len(f.tags) : ErrorAt(e, j) # Null}
                       |-> ErrorAt(e, i)],
     secondInput |-> n = <<>>]

\* The markup of the template for given values of the stores and of newTag:
\* the message heading, one input per tag with its error text, and the
\* second new-tag input.
Render(f, e, m, n) ==
    [messageShown |-> m # NoMessage,
     tagInputs |-> f.tags,
     errorTexts |-> [i \in {j \in 1..Len(f.tags) : ErrorAt(e, j) # Null}
                       |-> ErrorAt(e, i)],
     secondInput |-> n # <<>>]

\* formData() returning another store of the component
formData_wrongStore == [kind |-> "store", id |-> "errors"]

\* formData(): the form store itself
formData == [kind |-> "store", id |-> "form"]

StoreValue(id) ==
    CASE id = "form" -> form
      [] id = "errors" -> errors
      [] id = "message" -> message

\* $form in the page: the value of the store the page's form refers to
PageData ==
    IF pageForm = Undefined THEN Undefined ELSE StoreValue(pageForm.id)

\* A microtask (the reactive update awaited by tick, or the continuation of
\* addTag after it) is queued: it runs before any event or timer.
MicroPending == \E i \in 1..Len(calls) : calls[i].stage \in {"appended", "ticked"}

\* The page is mounted and no microtask is queued: events and timers run.
Ready == formComponent # Undefined /\ ~pageDirty /\ ~MicroPending

\* <Form {data} bind:this={formComponent} />
BindThis ==
    /\ formComponent = Undefined
    /\ formComponent' = [kind |-> "component", id |-> "Form"]
    /\ pageDirty' = TRUE
    /\ last' = "bindThis"
    /\ UNCHANGED <<form, errors, message, newTag, calls, dom, dirty, pageForm>>
    /\ UNCHANGED serverVars

\* $: form = formComponent && formComponent.formData()
ReactiveForm ==
    /\ pageDirty
    /\ pageForm' = IF formComponent = Undefined THEN Undefined ELSE formData
    /\ pageDirty' = FALSE
    /\ last' = "reactive"
    /\ UNCHANGED <<form, errors, message, newTag, calls, dom, dirty, formComponent>>
    /\ UNCHANGED serverVars

\* An event handler or a timer callback that assigns component state queues
\* a reactive update, which runs as a microtask before any other event: the
\* step of such a handler includes it (dom'). Only addTag goes on running
\* between its assignment and the update, which it awaits with tick().

\* bind:value={newTag}: the user changes the text of the new-tag input
Input(v) ==
    /\ Ready
    /\ v # newTag
    /\ newTag' = v
    /\ dom' = Render(form, errors, message, v)
    /\ last' = "input"
    /\ UNCHANGED <<form, errors, message, calls, dirty, formComponent, pageForm, pageDirty>>
    /\ UNCHANGED serverVars

\* bind:value={$form.tags[i]}: the user changes the text of tag i
EditTag(i, v) ==
    /\ Ready
    /\ i \in 1..Len(form.tags)
    /\ v # form.tags[i]
    /\ form' = [form EXCEPT !.tags[i] = v]
    /\ dom' = Render(form', errors, message, newTag)
    /\ last' = "editTag"
    /\ UNCHANGED <<errors, message, newTag, calls, dirty, formComponent, pageForm, pageDirty>>
    /\ UNCHANGED serverVars

\* addTag appending only a tag that passes the validator
AddTag_onlyValid ==
    /\ Ready
    /\ last' = "addTag"
    /\ IF newTag = <<>> \/ validators_tags(newTag) # Null
       THEN UNCHANGED <<form, calls, dirty>>
       ELSE /\ Len(form.tags) < MaxTags
            /\ form' = [form EXCEPT !.tags = Append(form.tags, newTag)]
            /\ calls' = Append(calls, [stage |-> "appended",
                                       index |-> Len(form.tags) + 1])
            /\ dirty' = TRUE
    /\ UNCHANGED <<errors, message, newTag, dom, formComponent, pageForm, pageDirty>>
    /\ UNCHANGED serverVars

\* addTag without its early return
AddTag_noGuard ==
    /\ Ready
    /\ last' = "addTag"
    /\ Len(form.tags) < MaxTags
    /\ form' = [form EXCEPT !.tags = Append(form.tags, newTag)]
    /\ calls' = Append(calls, [stage |-> "appended",
                               index |-> Len(form.tags) + 1])
    /\ dirty' = TRUE
    /\ UNCHANGED <<errors, message, newTag, dom, formComponent, pageForm, pageDirty>>
    /\ UNCHANGED serverVars

\* addTag starting the timer without awaiting tick
AddTag_noTick ==
    /\ Ready
    /\ last' = "addTag"
    /\ IF newTag = <<>>
       THEN UNCHANGED <<form, calls, dirty>>
       ELSE /\ Len(form.tags) < MaxTags
            /\ form' = [form EXCEPT !.tags = Append(form.tags, newTag)]
            /\ calls' = Append(calls, [stage |-> "scheduled",
                                       index |-> Len(form.tags) + 1])
            /\ dirty' = TRUE
    /\ UNCHANGED <<errors, message, newTag, dom, formComponent, pageForm, pageDirty>>
    /\ UNCHANGED serverVars

\* on:change={() => addTag()}: addTag up to its await. A call records, for
\* the properties, the index it appended its tag at.
AddTag ==
    /\ Ready
    /\ last' = "addTag"
    /\ IF newTag = <<>>
       THEN UNCHANGED <<form, calls, dirty>>
       ELSE /\ Len(form.tags) < MaxTags
            /\ form' = [form EXCEPT !.tags = Append(form.tags, newTag)]
            /\ calls' = Append(calls, [stage |-> "appended",
                                       index |-> Len(form.tags) + 1])
            /\ dirty' = TRUE
    /\ UNCHANGED <<errors, message, newTag, dom, formComponent, pageForm, pageDirty>>
    /\ UNCHANGED serverVars

\* await tick(): the pending reactive update is applied
Tick ==
    /\ Len(calls) > 0
    /\ calls[Len(calls)].stage = "appended"
    /\ dom' = Render(form, errors, message, newTag)
    /\ dirty' = FALSE
    /\ calls' = [calls EXCEPT ![Len(calls)].stage = "ticked"]
    /\ last' = "tick"
    /\ UNCHANGED <<form, errors, message, newTag, formComponent, pageForm, pageDirty>>
    /\ UNCHANGED serverVars

\* setTimeout(() => (newTag = ''), 1): addTag resumes and starts the timer
SetTimeout ==
    /\ Len(calls) > 0
    /\ calls[Len(calls)].stage = "ticked"
    /\ calls' = [calls EXCEPT ![Len(calls)].stage = "scheduled"]
    /\ last' = "setTimeout"
    /\ UNCHANGED <<form, errors, message, newTag, dom, dirty, formComponent, pageForm, pageDirty>>
    /\ UNCHANGED serverVars

\* () => (newTag = ''): the oldest timer fires
TimerFire ==
    /\ Ready
    /\ Len(calls) > 0
    /\ calls[1].stage = "scheduled"
    /\ newTag' = <<>>
    /\ calls' = Tail(calls)
    /\ dom' = Render(form, errors, message, <<>>)
    /\ last' = "reset"
    /\ UNCHANGED <<form, errors, message, dirty, formComponent, pageForm, pageDirty>>
    /\ UNCHANGED serverVars

\* use:enhance: the form is submitted; the tags validator runs on every tag,
\* and when no tag is in error the server's answer sets the message.
Submit ==
    /\ Ready
    /\ LET errs == [i \in 1..Len(form.tags) |-> validators_tags(form.tags[i])]
       IN  /\ errors' = [errors EXCEPT !.tags = errs]
           /\ IF \E i \in 1..Len(errs) : errs[i] # Null
              THEN UNCHANGED message
              ELSE message' \in Messages \cup {NoMessage}
    /\ dom' = Render(form, errors', message', newTag)
    /\ last' = "submit"
    /\ UNCHANGED <<form, newTag, calls, dirty, formComponent, pageForm, pageDirty>>
    /\ UNCHANGED serverVars

----------------------------------------------------------------------------
(* Specifications *)

Init ==
    /\ \E t \in TagLists : form = [tags |-> t]
    /\ errors = [tags |-> <<>>]
    /\ message = NoMessage
    /\ newTag = <<>>
    /\ calls = <<>>
    /\ dom = Render(form, errors, message, newTag)
    /\ dirty = FALSE
    /\ formComponent = Undefined
    /\ pageForm = Undefined
    /\ pageDirty = FALSE
    /\ last = "init"
    /\ event = NoEvent
    /\ result = NoResult

Next ==
    \/ BindThis
    \/ ReactiveForm
    \/ \E v \in TagStrings : Input(v)
    \/ \E i \in 1..MaxTags, v \in TagStrings : EditTag(i, v)
    \/ AddTag
    \/ Tick
    \/ SetTimeout
    \/ TimerFire
    \/ Submit

\* The Form component and the page
Spec == Init /\ [][Next]_vars

\* The same, with the scheduling the event loop guarantees: a queued
\* microtask runs, and a started timer fires.
SpecLive ==
    Init /\ [][Next]_vars /\ WF_vars(Tick) /\ WF_vars(SetTimeout) /\ WF_vars(TimerFire)

NextServer == GetRequest \/ PostRequest \/ Load \/ ActionDefault \/ Respond

\* The tutorial's +page.server.ts, serving the page with no tags
InitServer == Init /\ form.tags = <<>>

SpecServer == InitServer /\ [][NextServer]_vars


----------------------------------------------------------------------------
(* Properties of the server *)

\* C1: whatever is posted, the default action returns the validation object:
\* a failure with status 400 carrying { form } when form.valid is false,
\* { form } as a success when it is true, and never a result without form.
C1_ActionReturnsForm ==
    (event.method = "POST" /\ result # NoResult) =>
        /\ "form" \in DOMAIN result.data
        /\ result.data.form = superValidate(event)
        /\ result.type \in {"failure", "success"}
        /\ result.type = "failure" <=> ~result.data.form.valid
        /\ result.type = "failure" => result.status = 400

\* A posted valid e-mail address has been answered with a success.
C1_Witness ==
    /\ event.method = "POST"
    /\ result # NoResult
    /\ result.type = "success"
    /\ result.data.form.valid

\* C2: load, run on a GET request without FormData, returns { form } whose
\* data holds the defaults of the schema: name 'Hello world!', email ''.
C2_LoadReturnsDefaults ==
    (event.method = "GET" /\ result # NoResult) =>
        /\ "form" \in DOMAIN result.data
        /\ result.data.form.data.name = "Hello world!"
        /\ result.data.form.data.email = <<>>

\* load has answered a GET request.
C2_Witness ==
    /\ event.method = "GET"
    /\ event.formData = Undefined
    /\ result # NoResult
    /\ result.type = "loaded"

\* C6: a post whose email is not an e-mail address yields a validation
\* object with valid false, an errors entry for email and the posted data
\* unchanged, returned to the client in the 400 failure.
C6_InvalidPostKeepsData ==
    (event.method = "POST" /\ result # NoResult /\ ~IsEmail(event.formData.email)) =>
        /\ result.type = "failure"
        /\ result.status = 400
        /\ "form" \in DOMAIN result.data
        /\ result.data.form.valid = FALSE
        /\ "email" \in DOMAIN result.data.form.errors
        /\ result.data.form.data.name = event.formData.name
        /\ result.data.form.data.email = event.formData.email

\* The tutorial's own post: name 'Hello world!' and an empty email.
C6_Witness ==
    /\ event.method = "POST"
    /\ event.formData.name = "Hello world!"
    /\ event.formData.email = <<>>
    /\ result # NoResult
    /\ result.type = "failure"

----------------------------------------------------------------------------
(* Properties of the Form component and of the page *)

\* An addTag invocation has just appended its tag.
AppendStep == Len(calls') = Len(calls) + 1

\* A timer has just fired.
ResetStep == Len(calls') = Len(calls) - 1

\* C3: the tags validator answers 'Tag must be at least 2 characters' for
\* every tag shorter than 2 characters, the empty tag included, and null
\* for every other tag.
C3_ValidatorResult ==
    last = "submit" =>
        /\ Len(errors.tags) = Len(form.tags)
        /\ \A i \in 1..Len(form.tags) :
              /\ Len(form.tags[i]) < 2 => errors.tags[i] = "Tag must be at least 2 characters"
              /\ Len(form.tags[i]) >= 2 => errors.tags[i] = Null

\* The validator has run on an empty tag and on a tag of two characters.
C3_Witness ==
    /\ last = "submit"
    /\ \E i \in 1..Len(form.tags) : form.tags[i] = <<>> /\ errors.tags[i] # Null
    /\ \E i \in 1..Len(form.tags) : Len(form.tags[i]) = 2 /\ errors.tags[i] = Null

\* C4: addTag run with a non-empty newTag appends it to $form.tags: one
\* element more, the earlier tags unchanged, whether or not the tag is valid.
C4_AddTagAppends ==
    [][(last' = "addTag" /\ newTag # <<>>) =>
          /\ Len(form'.tags) = Len(form.tags) + 1
          /\ form'.tags[Len(form'.tags)] = newTag
          /\ \A i \in 1..Len(form.tags) : form'.tags[i] = form.tags[i]]_vars

\* A tag of one character, which the validator rejects, has been appended
\* behind an earlier tag.
C4_Witness ==
    /\ last = "addTag"
    /\ Len(newTag) = 1
    /\ Len(form.tags) >= 2
    /\ form.tags[Len(form.tags)] = newTag
    /\ validators_tags(newTag) # Null

\* C5: the page's form is undefined until the Form component is bound, and
\* from then on it is the component's form store: after any edit the data
\* the page displays is the data of the form.
C5_PageShowsFormStore ==
    /\ formComponent = Undefined => pageForm = Undefined
    /\ pageForm # Undefined => PageData = form
    /\ last \in {"editTag", "addTag", "tick"} => pageForm # Undefined

\* A tag has been edited and the page displays the edited data.
C5_Witness ==
    /\ last = "editTag"
    /\ Len(form.tags) > 0
    /\ pageForm # Undefined
    /\ PageData = form

\* C7: addTag run with an empty newTag changes nothing.
C7_EmptyAddTagNoop ==
    [][(last' = "addTag" /\ newTag = <<>>) =>
          UNCHANGED <<form, errors, message, newTag, calls, dom, dirty>>]_vars

\* addTag has run with an empty newTag while a timer of an earlier call was
\* still to fire.
C7_Witness ==
    /\ last = "addTag"
    /\ newTag = <<>>
    /\ Len(calls) > 0

\* C8 (order): a call starts by appending newTag, which it leaves as it is;
\* it moves on only from the append to the completed tick and from the tick
\* to the started timer; and newTag is reset only by the timer of a call
\* that went through both, whose tag is in $form.tags.
C8_Order ==
    [][/\ AppendStep =>
            /\ calls'[Len(calls')].stage = "appended"
            /\ newTag # <<>>
            /\ newTag' = newTag
            /\ form'.tags[calls'[Len(calls')].index] = newTag
       /\ Len(calls') = Len(calls) =>
            \A i \in 1..Len(calls) :
                calls'[i].stage # calls[i].stage =>
                    \/ calls[i].stage = "appended" /\ calls'[i].stage = "ticked" /\ ~dirty'
                    \/ calls[i].stage = "ticked" /\ calls'[i].stage = "scheduled"
       /\ last' = "reset" =>
            /\ ResetStep
            /\ calls[1].stage = "scheduled"
            /\ calls[1].index <= Len(form.tags)
            /\ newTag' = <<>>]_vars

\* C8 (progress): once addTag has appended a tag, newTag is eventually reset.
C8_Eventually == [](Len(calls) > 0 => <>(last = "reset" /\ newTag = <<>>))

\* C8: after addTag runs with a non-empty newTag, the tag is appended, then
\* the tick completes, then the timer fires and resets newTag, which
\* eventually happens.
C8_ResetAfterAppendAndTick == C8_Order /\ C8_Eventually

\* The timer of a call has fired and reset newTag.
C8_Witness ==
    /\ last = "reset"
    /\ newTag = <<>>
    /\ Len(form.tags) > 0
    /\ calls = <<>>

\* The markup shows what the stores hold: one input per tag, the error text
\* of tag i exactly when $errors.tags has an entry at i, the message heading
\* exactly when $message is set, the second input exactly when newTag is
\* not empty.
DomFollowsStores ==
    /\ dom.tagInputs = form.tags
    /\ \A i \in 1..Len(form.tags) :
          i \in DOMAIN dom.errorTexts <=> (i \in DOMAIN errors.tags /\ errors.tags[i] # Null)
    /\ \A i \in DOMAIN dom.errorTexts : dom.errorTexts[i] = errors.tags[i]
    /\ dom.messageShown <=> message # NoMessage
    /\ dom.secondInput <=> newTag # <<>>

C10_NoLostInputNoDuplicate ==
    [][/\ (ResetStep /\ newTag # <<>>) =>
            \E i \in 1..Len(form.tags) : form.tags[i] = newTag
       /\ AppendStep =>
            \A i \in 1..Len(calls) : form.tags[calls[i].index] # newTag]_vars

====
